---------------------------- MODULE Spec2Model ----------------------------
(***************************************************************************)
(* A state-machine model of the process and observation models of dbot:   *)
(*   - PixelObservationModel and DepthObservationModel                     *)
(*     (dev_test_tracker/depth_observation_model.hpp),                     *)
(*   - ContinuousOcclusionProcessModel                                     *)
(*     (continuous_occlusion_process_model.hpp),                           *)
(*   - BrownianObjectMotionModel (brownian_object_motion_model.hpp).       *)
(*                                                                         *)
(* Scalars are modelled on the integer grid.  The floating-point special   *)
(* values are modelled where the code tests for them (std::isinf in        *)
(* convert, std::isnan in the occlusion model) and where a function of     *)
(* the code produces them from ordinary inputs (logit at 0 and 1).         *)
(***************************************************************************)
EXTENDS Integers, Sequences, FiniteSets, TLC

VARIABLES
    \* ---- DepthObservationModel and its rendering collaborator
    pose_state_dimension,   \* DepthObservationModel::pose_state_dimension_
    pixel_count,            \* depth_rendering_.size() == res_rows * res_cols
    predictions_cache,      \* DepthObservationModel::predictions_cache_
    depth_rendering,        \* DepthObservationModel::depth_rendering_
    renderer,               \* *renderer_: its scene and the pose last set
    ret,                    \* outcome of the last call on the depth model, with
                            \* its pose and noise and the scene rendered then
    taken,                  \* history: the renderings taken since the last clear
    \* ---- PixelObservationModel
    pix,                    \* a pixel model call: its inputs and its result
    \* ---- ContinuousOcclusionProcessModel
    occ,                    \* the instance: its parameters, mean_ and
                            \* truncated_gaussian_, and whether the process runs
    occRet,                 \* the last call on it: arguments and outcome
    occHist,                \* history: the arguments of the last condition and
                            \* the samples mapped since, with their results
    \* ---- BrownianObjectMotionModel
    mot,                    \* the instance: state_, quaternion_map_,
                            \* rotation_center_, linear_process_, angular_process_
    motRet,                 \* the last call on it: arguments and outcome
    motHist,                \* history: the arguments of the last condition
    \* ---- two callers of a process model
    kind,                   \* which model the callers use
    shared,                 \* whether the callers use one instance
    inst,                   \* the conditioned parameters of each instance
    caller                  \* each caller: its position, arguments and result

depthVars == <<pose_state_dimension, pixel_count, predictions_cache,
               depth_rendering, renderer, ret, taken>>
pixelVars == <<pix>>
occVars == <<occ, occRet, occHist>>
motVars == <<mot, motRet, motHist>>
callerVars == <<kind, shared, inst, caller>>
vars == <<depthVars, pixelVars, occVars, motVars, callerVars>>

(***************************************************************************)
(* Bounds of the model.                                                    *)
(***************************************************************************)
MaxCache == 2       \* predict_observation is explored while the cache holds
                    \* fewer entries than this, or on a hit
MaxChain == 1       \* prediction steps chained on a returned state

(***************************************************************************)
(* PixelObservationModel                                                   *)
(***************************************************************************)
\* Values of the occlusion feature (the exponent of the noise scale).
FeatureValues == {0, 1, 2}
\* Values of one standard-normal noise draw.
NoiseValues == {-1, 0, 1}
\* camera_sigma and model_sigma given to the constructors.
SigmaValues == {1, 2}
\* Rendered depths given to the pixel model directly.
DepthValues == {0, 1, 2, 3, 7}

\* std::exp on the model's grid: e^x rounded to the nearest integer.
Exp(x) == CASE x = 0 -> 1
            [] x = 1 -> 3
            [] x = 2 -> 7
            [] OTHER -> 0

\* PixelCov::Identity() * (camera_sigma^2 + model_sigma^2): covariance()(0,0).
PixelCov(camera_sigma, model_sigma) ==
    (camera_sigma * camera_sigma) + (model_sigma * model_sigma)

\* y(0,0) of PixelObservationModel::predict_observation; state = <<depth, feature>>.
PixelY0(state, cov, noise) == state[1] + Exp(state[2]) * cov * noise

\* A slip in the second component: the first doubled instead of squared.
PixelY1Doubled(y0) == 2 * y0

\* y(1,0) of PixelObservationModel::predict_observation.
PixelY1(y0) == y0 * y0

\* PixelObservationModel::predict_observation (delta_time is not used).
PixelPredictObservation(state, cov, noise) ==
    LET y0 == PixelY0(state, cov, noise)
    IN  <<y0, PixelY1(y0)>>

PixIdle == [called |-> FALSE, state |-> <<0, 0>>, cov |-> 0, noise |-> 0,
            y |-> <<0, 0>>]

\* A caller constructs a pixel model with some covariance and predicts once.
PixelCall ==
    /\ \E d \in DepthValues, o \in FeatureValues, n \in NoiseValues,
          cs \in SigmaValues, ms \in SigmaValues :
          pix' = [called |-> TRUE, state |-> <<d, o>>,
                  cov |-> PixelCov(cs, ms), noise |-> n,
                  y |-> PixelPredictObservation(<<d, o>>, PixelCov(cs, ms), n)]
    /\ UNCHANGED <<depthVars, occVars, motVars, callerVars>>

(***************************************************************************)
(* The rendering collaborator (fl::RigidBodyRenderer).  Its scene is the   *)
(* state behind the renderer that does not depend on the pose.  A depth    *)
(* is a record: inf for a pixel no object covers, else a value v.          *)
(***************************************************************************)
Scenes == {1, 2}
Finite(v) == [inf |-> FALSE, v |-> v]
Infinite == [inf |-> TRUE, v |-> 0]

RECURSIVE SumSeq(_)
SumSeq(s) == IF s = <<>> THEN 0 ELSE Head(s) + SumSeq(Tail(s))

\* The depth the renderer gives pixel i for the pose set and the scene.
RenderPixel(scene, pose, i) ==
    IF scene = 2 /\ i = 1 THEN Infinite
    ELSE Finite(scene + SumSeq(pose) + i)

\* renderer_->Render(depth_rendering_) when it succeeds.
Render(scene, pose, n) == [i \in 1..n |-> RenderPixel(scene, pose, i)]

(***************************************************************************)
(* DepthObservationModel                                                   *)
(***************************************************************************)
\* state.topRows(n)
TopRows(state, n) == SubSeq(state, 1, n)

\* DepthObservationModel::convert: the latent vector, two values per pixel.
Convert(depth, state, psd) ==
    [k \in 1..(2 * Len(depth)) |->
        LET i == (k + 1) \div 2
        IN  IF k % 2 = 1
            THEN (IF depth[i].inf THEN 7 ELSE depth[i].v)
            ELSE state[psd + i]]

\* FactorizedIIDObservationModel::predict_observation of camera_obsrv_model_:
\* the pixel model applied to each pixel's slice of the latent vector.
CameraPredictObservation(latent, cov, noise) ==
    [k \in 1..Len(latent) |->
        LET i == (k + 1) \div 2
            y == PixelPredictObservation(<<latent[2 * i - 1], latent[2 * i]>>,
                                         cov, noise[i])
        IN  y[2 - (k % 2)]]

\* A lookup that never finds its key (keys compared by identity).
CacheFindNever(cache, pose) == FALSE

\* predictions_cache_.find(pose) != predictions_cache_.end(): the key type is
\* Eigen::MatrixXd, compared element by element with ==.
CacheFind(cache, pose) == pose \in DOMAIN cache

\* predictions_cache_[pose]: a reference to the entry of pose, inserted with
\* a default-constructed (empty) latent vector when there is none.
CacheSubscript(cache, pose) ==
    IF CacheFind(cache, pose) THEN cache
    ELSE [p \in DOMAIN cache \cup {pose} |->
            IF p = pose THEN <<>> ELSE cache[p]]

\* An assignment through the reference predictions_cache_[pose].
CacheStore(cache, pose, latent) ==
    [p \in DOMAIN cache |-> IF p = pose THEN latent ELSE cache[p]]

\* clear_cache(): predictions_cache_.clear().
ClearedCache(cache) == [p \in {} |-> <<>>]

\* What camera_obsrv_model_.predict_observation returns for the latent vector:
\* with fewer than two values per pixel it reads past the end of the (empty)
\* vector, which is undefined: an Eigen assertion stops the process in a
\* build with assertions, any values are read in a build without them.
CameraOutcomes(latent, cov, noise, n) ==
    IF Len(latent) = 2 * n
    THEN {[kind |-> "obs", obs |-> CameraPredictObservation(latent, cov, noise)]}
    ELSE {[kind |-> "abort", obs |-> <<>>]}
         \cup {[kind |-> "obs", obs |-> [k \in 1..(2 * n) |-> v]] :
                  v \in {0, 7}}

\* The poses (first six state components) given to predict_observation:
\* they differ from one another in the first or in the last coordinate.
Poses == {<<0, 0, 0, 0, 0, 0>>, <<1, 0, 0, 0, 0, 0>>, <<0, 0, 0, 0, 0, 1>>}

\* The state vectors given to predict_observation: a pose, the pose
\* components beyond the sixth, and one occlusion feature per pixel.
\* The features are all zero, or differ from one pixel to the next.
DepthStates(psd, n) ==
    {p \o e \o f : p \in Poses, e \in [1..(psd - 6) -> {0, 1}],
                   f \in {[i \in 1..n |-> 0], [i \in 1..n |-> i % 2]}}

\* The noise vectors given to predict_observation, one draw per pixel.
DepthNoises(n) ==
    {[i \in 1..n |-> 0], [i \in 1..n |-> IF i = n THEN 1 ELSE 0]}

RetIdle == [kind |-> "none", obs |-> <<>>, pose |-> <<>>, noise |-> <<>>,
            hit |-> FALSE, rendered |-> FALSE, scene |-> 0, other |-> FALSE]
\* other: whether the call hit an entry that a call with another state (the
\* same first six components, other components beyond them) had rendered

\* History of the renderings taken for a pose since the last clear_cache:
\* how many times Render was invoked (2 stands for more than once), and the
\* last rendering that succeeded with the state of the call that took it.
TakenIdle == [n |-> 0, ok |-> FALSE, depth |-> <<>>, state |-> <<>>]
TakenOf(p) == IF p \in DOMAIN taken THEN taken[p] ELSE TakenIdle
TakenWith(p, rec) ==
    [q \in DOMAIN taken \cup {p} |-> IF q = p THEN rec ELSE taken[q]]

\* DepthObservationModel::predict_observation(state, noise, delta_time).
\* renderFails: whether renderer_->Render throws when this call invokes it.
PredictObservation(state, noise, renderFails) ==
    LET pose == TopRows(state, 6)
        hit == CacheFind(predictions_cache, pose)
        \* map(state, predictions_cache_[pose]): the argument is evaluated,
        \* inserting the entry, before map runs
        inserted == CacheSubscript(predictions_cache, pose)
        rpose == TopRows(state, pose_state_dimension)
        depth == Render(renderer.scene, rpose, pixel_count)
        latent == Convert(depth, state, pose_state_dimension)
        cov == PixelCov(renderer.camera_sigma, renderer.model_sigma)
    IN  /\ ret.kind # "abort"
        /\ hit \/ Cardinality(DOMAIN predictions_cache) < MaxCache
        /\ hit => ~renderFails
        /\ IF hit
           THEN /\ \E out \in CameraOutcomes(predictions_cache[pose], cov,
                                             noise, pixel_count) :
                      ret' = [kind |-> out.kind, obs |-> out.obs, pose |-> pose,
                              noise |-> noise, hit |-> TRUE, rendered |-> FALSE,
                              scene |-> renderer.scene,
                              other |-> TakenOf(pose).ok
                                        /\ state # TakenOf(pose).state]
                /\ UNCHANGED <<predictions_cache, depth_rendering, renderer,
                               taken>>
           ELSE IF renderFails
           THEN \* Render throws out of map and out of predict_observation
                /\ predictions_cache' = inserted
                /\ renderer' = [renderer EXCEPT !.pose = rpose]
                /\ ret' = [kind |-> "error", obs |-> <<>>, pose |-> pose,
                           noise |-> noise, hit |-> FALSE, rendered |-> TRUE,
                           scene |-> renderer.scene, other |-> FALSE]
                /\ taken' = TakenWith(pose,
                       [TakenOf(pose) EXCEPT !.n = IF @ = 0 THEN 1 ELSE 2])
                /\ UNCHANGED depth_rendering
           ELSE /\ predictions_cache' = CacheStore(inserted, pose, latent)
                /\ renderer' = [renderer EXCEPT !.pose = rpose]
                /\ depth_rendering' = depth
                /\ \E out \in CameraOutcomes(predictions_cache'[pose], cov,
                                             noise, pixel_count) :
                      ret' = [kind |-> out.kind, obs |-> out.obs, pose |-> pose,
                              noise |-> noise, hit |-> FALSE, rendered |-> TRUE,
                              scene |-> renderer.scene, other |-> FALSE]
                /\ taken' = TakenWith(pose,
                       [n |-> IF TakenOf(pose).n = 0 THEN 1 ELSE 2,
                        ok |-> TRUE, depth |-> depth, state |-> state])
        /\ UNCHANGED <<pose_state_dimension, pixel_count>>
        /\ UNCHANGED <<pixelVars, occVars, motVars, callerVars>>

PredictObservationCall ==
    \E state \in DepthStates(pose_state_dimension, pixel_count),
       noise \in DepthNoises(pixel_count), renderFails \in BOOLEAN :
        PredictObservation(state, noise, renderFails)

\* DepthObservationModel::clear_cache().
ClearCache ==
    /\ ret.kind # "abort"
    /\ predictions_cache' = ClearedCache(predictions_cache)
    /\ taken' = [p \in {} |-> TakenIdle]
    /\ ret' = [RetIdle EXCEPT !.kind = "cleared"]
    /\ UNCHANGED <<pose_state_dimension, pixel_count, depth_rendering, renderer>>
    /\ UNCHANGED <<pixelVars, occVars, motVars, callerVars>>

\* The scene behind the renderer changes (another object model is loaded).
ChangeScene ==
    /\ ret.kind # "abort"
    /\ \E sc \in Scenes \ {renderer.scene} :
          renderer' = [renderer EXCEPT !.scene = sc]
    /\ UNCHANGED <<pose_state_dimension, pixel_count, predictions_cache,
                   depth_rendering, ret, taken>>
    /\ UNCHANGED <<pixelVars, occVars, motVars, callerVars>>

\* The constructor arguments explored: one pixel with and without pose
\* components beyond the sixth, and two pixels.
DepthConfigs ==
    {[pose_state_dimension |-> 6, res_rows |-> 1, res_cols |-> 1],
     [pose_state_dimension |-> 7, res_rows |-> 1, res_cols |-> 1],
     [pose_state_dimension |-> 6, res_rows |-> 1, res_cols |-> 2]}

\* DepthObservationModel::DepthObservationModel: the state after construction.
InitDepth ==
    /\ \E c \in DepthConfigs :
          /\ pose_state_dimension = c.pose_state_dimension
          /\ pixel_count = c.res_rows * c.res_cols
    /\ predictions_cache = [p \in {} |-> <<>>]
    /\ depth_rendering = [i \in 1..pixel_count |-> Finite(0)]
    /\ renderer \in [scene : Scenes, pose : {<<>>},
                     camera_sigma : {1}, model_sigma : {1}]
    /\ ret = RetIdle
    /\ taken = [p \in {} |-> TakenIdle]

\* The constructor arguments (pose_state_dimension, res_rows, res_cols) of
\* any caller: also a pixel grid without rows or columns, or with a negative
\* number of rows.
DepthCtorArguments ==
    {[pose_state_dimension |-> 6, res_rows |-> 1, res_cols |-> 1],
     [pose_state_dimension |-> 6, res_rows |-> 0, res_cols |-> 1],
     [pose_state_dimension |-> 6, res_rows |-> 1, res_cols |-> 0],
     [pose_state_dimension |-> 6, res_rows |-> -1, res_cols |-> 1]}

\* Whether the constructor ends the process or throws for the arguments c:
\* the assert of a build that keeps assertions stops the process for a
\* dimension that is not positive; depth_rendering_.resize of a negative
\* product (a huge size_t) throws in any build.
DepthCtorFails(c, asserts) ==
    \/ asserts /\ (c.res_rows <= 0 \/ c.res_cols <= 0)
    \/ c.res_rows * c.res_cols < 0

\* DepthObservationModel::DepthObservationModel for any arguments, in a build
\* with or without assertions: the state after construction, if there is
\* one; no call is made on an instance whose construction failed.
InitDepthAny ==
    /\ \E c \in DepthCtorArguments, asserts \in BOOLEAN :
          /\ pose_state_dimension = c.pose_state_dimension
          /\ pixel_count = c.res_rows * c.res_cols
          /\ ret = IF DepthCtorFails(c, asserts)
                   THEN [RetIdle EXCEPT !.kind = "abort"]
                   ELSE RetIdle
    /\ predictions_cache = [p \in {} |-> <<>>]
    /\ depth_rendering = [i \in 1..pixel_count |-> Finite(0)]
    /\ renderer \in [scene : Scenes, pose : {<<>>},
                     camera_sigma : {1}, model_sigma : {1}]
    /\ taken = [p \in {} |-> TakenIdle]

\* No depth model was constructed: there is no renderer.
NoDepth ==
    /\ pose_state_dimension = 6
    /\ pixel_count = 1
    /\ predictions_cache = [p \in {} |-> <<>>]
    /\ depth_rendering = <<Finite(0)>>
    /\ renderer = [scene |-> 0, pose |-> <<>>, camera_sigma |-> 1,
                   model_sigma |-> 1]
    /\ ret = RetIdle
    /\ taken = [p \in {} |-> TakenIdle]

IdleDepth ==
    /\ pose_state_dimension = 6
    /\ pixel_count = 1
    /\ predictions_cache = [p \in {} |-> <<>>]
    /\ depth_rendering = <<Finite(0)>>
    /\ renderer = [scene |-> 1, pose |-> <<>>, camera_sigma |-> 1,
                   model_sigma |-> 1]
    /\ ret = RetIdle
    /\ taken = [p \in {} |-> TakenIdle]

(***************************************************************************)
(* Scalars of the occlusion model.  A double is a number of the grid or    *)
(* one of the special values NaN, +infinity, -infinity.  Probabilities     *)
(* are counted in quarters: ProbOne stands for 1.0.  Log-odds are counted  *)
(* in steps of logit(3/4); a log-odds of magnitude 2 or more stands for    *)
(* one whose sigmoid rounds to 0.0 or 1.0 in double arithmetic.            *)
(***************************************************************************)
ProbOne == 4

Num(v) == [k |-> "num", v |-> v]
NaN == [k |-> "nan", v |-> 0]
PosInf == [k |-> "inf", v |-> 1]
NegInf == [k |-> "inf", v |-> -1]

\* A test that never sees a NaN (the guard left out).
IsNanNever(x) == FALSE

\* std::isnan
IsNan(x) == x.k = "nan"

IsFinite(x) == x.k = "num"

\* fl::sigmoid(x) = 1 / (1 + exp(-x))
Sigmoid(x) ==
    CASE x.k = "nan" -> NaN
      [] x.k = "inf" -> Num(IF x.v > 0 THEN ProbOne ELSE 0)
      [] OTHER -> Num(IF x.v <= -2 THEN 0
                      ELSE IF x.v >= 2 THEN ProbOne
                      ELSE x.v + 2)

\* fl::logit(p) = log(p / (1 - p)): -infinity at 0, +infinity at 1, NaN
\* outside [0, 1] (the logarithm of a negative number).
Logit(p) ==
    CASE p.k = "nan" -> NaN
      [] p.k = "inf" -> NaN
      [] OTHER -> IF p.v < 0 \/ p.v > ProbOne THEN NaN
                  ELSE IF p.v = 0 THEN NegInf
                  ELSE IF p.v = ProbOne THEN PosInf
                  ELSE Num(p.v - 2)

\* std::sqrt on the time steps of the model.
Sqrt(x) ==
    CASE x.k = "nan" -> NaN
      [] x.k = "inf" -> IF x.v > 0 THEN PosInf ELSE NaN
      [] OTHER -> IF x.v < 0 THEN NaN ELSE Num(x.v)

\* sigma_ * std::sqrt(delta_time)
Scaled(sigma, x) == IF x.k = "num" THEN Num(sigma * x.v) ELSE x

\* One second of the two-state mixing of OcclusionProcessModel: the
\* probability p of being occluded becomes p*p_oo + (1-p)*p_ov, rounded to
\* the grid.
MixStep(par, p) ==
    (par.p_occluded_visible * (ProbOne - p) + par.p_occluded_occluded * p
        + (ProbOne \div 2)) \div ProbOne

RECURSIVE MixSteps(_, _, _)
MixSteps(par, n, p) ==
    IF n <= 0 THEN p ELSE MixSteps(par, n - 1, MixStep(par, p))

\* mean_.condition(delta_time, p) followed by mean_.sample(): the conditioned
\* mean probability; NaN when the time step or the probability is NaN.
MixMean(par, m) ==
    IF m.delta_time.k # "num" \/ m.probability.k # "num" THEN NaN
    ELSE Num(MixSteps(par, m.delta_time.v, m.probability.v))

\* Whether a standard-normal sample lies so far in a tail that its
\* cumulative probability rounds to 0.0 or 1.0.
InTail(sample) == sample <= -4 \/ sample >= 4

\* truncated_gaussian_.map_standard_normal(sample) of fl::TruncatedGaussian:
\* the sample is mapped monotonically into the closed interval [min, max];
\* a sample in a tail is mapped to the bound, any other sample strictly
\* inside.  With sigma 0 the map is mean + 0 * erfinv(..): the mean itself,
\* and NaN where the factor is infinite (a tail sample) or where the
\* standardised bound is 0/0 (the mean on a bound).
TruncatedGaussianMap(tg, sample) ==
    IF tg.mean.k # "num" \/ tg.sigma.k # "num" THEN NaN
    ELSE IF tg.sigma.v = 0
    THEN (IF InTail(sample) \/ tg.mean.v <= tg.min \/ tg.mean.v >= tg.max
          THEN NaN ELSE tg.mean)
    ELSE LET x == tg.mean.v + tg.sigma.v * sample
         IN  Num(IF sample <= -4 THEN tg.min
                 ELSE IF sample >= 4 THEN tg.max
                 ELSE IF x <= tg.min THEN tg.min + 1
                 ELSE IF x >= tg.max THEN tg.max - 1
                 ELSE x)

\* The constructor arguments explored: (p_occluded_visible,
\* p_occluded_occluded, sigma), the probabilities in quarters.
OccParams ==
    {[p_occluded_visible |-> 1, p_occluded_occluded |-> 3, sigma |-> 1],
     [p_occluded_visible |-> 0, p_occluded_occluded |-> 2, sigma |-> 1]}

\* The log-odds given to condition.
OccStates == {NaN, NegInf, PosInf, Num(-2), Num(0), Num(1)}
\* The time steps given to condition.
OccTimes == {NaN, Num(0), Num(1), Num(2)}
\* The standard-normal samples given to map_standard_normal; 4 stands for a
\* sample far in the tail.
OccSamples == {-4, 0, 4}

OccRetIdle == [op |-> "none", kind |-> "none", delta_time |-> Num(0),
               occlusion |-> Num(0), sample |-> 0, mean |-> Num(0),
               out |-> Num(0), before |-> <<>>, known |-> FALSE,
               earlier |-> Num(0)]

OccHistIdle == [conditioned |-> FALSE, delta_time |-> Num(0),
                occlusion |-> Num(0), mapped |-> [x \in {} |-> Num(0)]]

\* The conditioned parameters the instance stores.
OccConditioned(o) == <<o.mean, o.truncated_gaussian>>

\* What mean_.condition(delta_time, initial_occlusion_probability) stores.
OccMean(delta_time, occlusion) ==
    [delta_time |-> delta_time, probability |-> Sigmoid(occlusion)]

\* What truncated_gaussian_.parameters(mean, sigma_ * sqrt(delta_time), 0.0,
\* 1.0) stores.
OccTruncatedGaussian(par, delta_time, occlusion) ==
    [mean |-> MixMean(par, OccMean(delta_time, occlusion)),
     sigma |-> Scaled(par.sigma, Sqrt(delta_time)),
     min |-> 0, max |-> ProbOne]

\* ContinuousOcclusionProcessModel::condition(delta_time, occlusion).
\* exit(-1) ends the process: running becomes FALSE and nothing is set after it.
OccCondition(delta_time, occlusion) ==
    LET m == OccMean(delta_time, occlusion)
        mean == MixMean(occ.par, m)
        r == [OccRetIdle EXCEPT !.op = "condition", !.delta_time = delta_time,
                                !.occlusion = occlusion,
                                !.before = OccConditioned(occ)]
    IN  IF IsNan(occlusion)
        THEN /\ occ' = [occ EXCEPT !.running = FALSE]
             /\ occRet' = [r EXCEPT !.kind = "exit"]
             /\ UNCHANGED occHist
        ELSE IF IsNan(mean)
        THEN /\ occ' = [occ EXCEPT !.running = FALSE, !.mean = m]
             /\ occRet' = [r EXCEPT !.kind = "exit", !.mean = mean]
             /\ UNCHANGED occHist
        ELSE /\ occ' = [occ EXCEPT
                    !.mean = m,
                    !.truncated_gaussian =
                        OccTruncatedGaussian(occ.par, delta_time, occlusion)]
             /\ occRet' = [r EXCEPT !.kind = "ok", !.mean = mean]
             /\ occHist' = [conditioned |-> TRUE, delta_time |-> delta_time,
                            occlusion |-> occlusion,
                            mapped |-> [x \in {} |-> Num(0)]]

\* The value map_standard_normal computes: l(0, 0).
OccMapValue(tg, sample) == Logit(TruncatedGaussianMap(tg, sample))

\* ContinuousOcclusionProcessModel::map_standard_normal(sample): a const
\* method, it leaves the instance as it is.
OccMapStandardNormal(sample) ==
    LET l == OccMapValue(occ.truncated_gaussian, sample)
        r == [OccRetIdle EXCEPT !.op = "map", !.sample = sample, !.out = l,
                                !.before = OccConditioned(occ),
                                !.known = sample \in DOMAIN occHist.mapped,
                                !.earlier =
                                    IF sample \in DOMAIN occHist.mapped
                                    THEN occHist.mapped[sample] ELSE Num(0)]
    IN  IF IsNan(l)
        THEN /\ occ' = [occ EXCEPT !.running = FALSE]
             /\ occRet' = [r EXCEPT !.kind = "exit"]
             /\ UNCHANGED occHist
        ELSE /\ UNCHANGED occ
             /\ occRet' = [r EXCEPT !.kind = "ok"]
             /\ occHist' = [occHist EXCEPT !.mapped =
                    [x \in DOMAIN @ \cup {sample} |->
                        IF x = sample THEN l ELSE @[x]]]

\* ContinuousOcclusionProcessModel::predict_state(delta_time, state, noise):
\* condition, then map_standard_normal on what condition has set.
OccPredictState(delta_time, state, noise) ==
    LET m == OccMean(delta_time, state)
        tg == OccTruncatedGaussian(occ.par, delta_time, state)
        l == OccMapValue(tg, noise)
        r == [OccRetIdle EXCEPT !.op = "map", !.sample = noise, !.out = l,
                                !.before = <<m, tg>>]
        h == [conditioned |-> TRUE, delta_time |-> delta_time,
              occlusion |-> state, mapped |-> [x \in {} |-> Num(0)]]
    IN  IF IsNan(state) \/ IsNan(tg.mean)
        THEN OccCondition(delta_time, state)
        ELSE IF IsNan(l)
        THEN /\ occ' = [occ EXCEPT !.running = FALSE, !.mean = m,
                                   !.truncated_gaussian = tg]
             /\ occRet' = [r EXCEPT !.kind = "exit"]
             /\ occHist' = h
        ELSE /\ occ' = [occ EXCEPT !.mean = m, !.truncated_gaussian = tg]
             /\ occRet' = [r EXCEPT !.kind = "ok"]
             /\ occHist' = [h EXCEPT !.mapped = [x \in {noise} |-> l]]

OccConditionCall ==
    /\ occ.running
    /\ \E dt \in OccTimes, l \in OccStates : OccCondition(dt, l)
    /\ UNCHANGED <<depthVars, pixelVars, motVars, callerVars>>

\* Callers follow the two-phase protocol: they map after they conditioned.
OccMapCall ==
    /\ occ.running
    /\ occHist.conditioned
    /\ \E sample \in OccSamples : OccMapStandardNormal(sample)
    /\ UNCHANGED <<depthVars, pixelVars, motVars, callerVars>>

OccPredictStateCall ==
    /\ occ.running
    /\ \E dt \in OccTimes, l \in OccStates, noise \in OccSamples :
          OccPredictState(dt, l, noise)
    /\ UNCHANGED <<depthVars, pixelVars, motVars, callerVars>>

\* ContinuousOcclusionProcessModel::ContinuousOcclusionProcessModel.
InitOcc ==
    /\ \E par \in OccParams :
          occ = [running |-> TRUE, par |-> par,
                 mean |-> [delta_time |-> Num(0), probability |-> Num(0)],
                 truncated_gaussian |->
                     [mean |-> Num(0), sigma |-> Num(ProbOne), min |-> 0,
                      max |-> ProbOne]]
    /\ occRet = OccRetIdle
    /\ occHist = OccHistIdle

\* The constructor arguments of any caller: also a sigma that is not
\* positive and a transition probability above 1.
OccCtorArguments ==
    {[p_occluded_visible |-> 1, p_occluded_occluded |-> 3, sigma |-> 1],
     [p_occluded_visible |-> 1, p_occluded_occluded |-> 3, sigma |-> 0],
     [p_occluded_visible |-> ProbOne + 1, p_occluded_occluded |-> 3,
      sigma |-> 1]}

\* ContinuousOcclusionProcessModel::ContinuousOcclusionProcessModel for any
\* arguments: mean_ and sigma_ are initialised from them as they are.
InitOccAny ==
    /\ \E par \in OccCtorArguments :
          occ = [running |-> TRUE, par |-> par,
                 mean |-> [delta_time |-> Num(0), probability |-> Num(0)],
                 truncated_gaussian |->
                     [mean |-> Num(0), sigma |-> Num(ProbOne), min |-> 0,
                      max |-> ProbOne]]
    /\ occRet = OccRetIdle
    /\ occHist = OccHistIdle

\* No occlusion model is in use.
IdleOcc ==
    /\ occ = [running |-> FALSE, par |-> CHOOSE par \in OccParams : TRUE,
              mean |-> [delta_time |-> Num(0), probability |-> Num(0)],
              truncated_gaussian |->
                  [mean |-> Num(0), sigma |-> Num(ProbOne), min |-> 0,
                   max |-> ProbOne]]
    /\ occRet = OccRetIdle
    /\ occHist = OccHistIdle

(***************************************************************************)
(* Vectors and quaternions of the motion model.  A 3-vector is n / d with  *)
(* integer coordinates n and a positive denominator d, in lowest terms.    *)
(* A quaternion is v / sqrt(d2) with integer coefficients v = (x, y, z, w) *)
(* in Eigen's order; it has norm 1 exactly when x^2+y^2+z^2+w^2 = d2.      *)
(***************************************************************************)
Abs(x) == IF x < 0 THEN -x ELSE x

RECURSIVE Gcd(_, _)
Gcd(a, b) == IF b = 0 THEN a ELSE Gcd(b, a % b)

CanonVec(n, d) ==
    LET g == Gcd(Gcd(Gcd(Abs(n[1]), Abs(n[2])), Abs(n[3])), d)
    IN  [n |-> <<n[1] \div g, n[2] \div g, n[3] \div g>>, d |-> d \div g]

Vec(a, b, c) == [n |-> <<a, b, c>>, d |-> 1]
Zero3 == Vec(0, 0, 0)

VAdd(a, b) ==
    CanonVec([k \in 1..3 |-> a.n[k] * b.d + b.n[k] * a.d], a.d * b.d)
VSub(a, b) ==
    CanonVec([k \in 1..3 |-> a.n[k] * b.d - b.n[k] * a.d], a.d * b.d)
VScale(c, a) == CanonVec([k \in 1..3 |-> c * a.n[k]], a.d)

\* Eigen's a.cross(b)
Cross(a, b) ==
    CanonVec(<<a.n[2] * b.n[3] - a.n[3] * b.n[2],
               a.n[3] * b.n[1] - a.n[1] * b.n[3],
               a.n[1] * b.n[2] - a.n[2] * b.n[1]>>, a.d * b.d)

Dot3(r, n) == r[1] * n[1] + r[2] * n[2] + r[3] * n[3]

SumSq(v) == v[1] * v[1] + v[2] * v[2] + v[3] * v[3] + v[4] * v[4]

Quat(x, y, z, w, d2) == [v |-> <<x, y, z, w>>, d2 |-> d2]

\* The quaternion left as it is (the normalisation left out).
NormalizedNot(q) == q

\* Eigen's Quaternion::normalized(): the coefficients divided by the norm
\* (a zero quaternion has no direction and stays zero).
Normalized(q) ==
    LET g == Gcd(Gcd(Gcd(Abs(q.v[1]), Abs(q.v[2])), Abs(q.v[3])), Abs(q.v[4]))
    IN  IF g = 0 THEN q
        ELSE LET u == [k \in 1..4 |-> q.v[k] \div g]
             IN  [v |-> u, d2 |-> SumSq(u)]

\* state.rotation_matrix(i) * c: the rotation of the quaternion q applied to c.
Rotate(q, c) ==
    LET x == q.v[1]
        y == q.v[2]
        z == q.v[3]
        w == q.v[4]
        m == << <<q.d2 - 2 * (y * y + z * z), 2 * (x * y - z * w),
                  2 * (x * z + y * w)>>,
                <<2 * (x * y + z * w), q.d2 - 2 * (x * x + z * z),
                  2 * (y * z - x * w)>>,
                <<2 * (x * z - y * w), 2 * (y * z + x * w),
                  q.d2 - 2 * (x * x + y * y)>> >>
    IN  CanonVec([k \in 1..3 |-> Dot3(m[k], c.n)], q.d2 * c.d)

\* fl::quaternion_matrix(q.coeffs()): the 4x3 matrix that maps an angular
\* displacement to the change of the coefficients, 0.5 * m / sqrt(d2); the
\* integer matrix m is kept.
QuaternionMatrix(q) ==
    LET x == q.v[1]
        y == q.v[2]
        z == q.v[3]
        w == q.v[4]
    IN  << <<w, z, -y>>, <<-z, w, x>>, <<y, -x, w>>, <<-x, -y, -z>> >>

\* Quaternion(state_.quaternion(i).coeffs() + quaternion_map_[i] * delta):
\* (v + 0.5 * m * delta) / sqrt(d2), written over the denominator
\* 2 * delta.d * sqrt(d2).
UpdatedQuaternion(q, m, delta) ==
    [v |-> [k \in 1..4 |-> 2 * delta.d * q.v[k] + Dot3(m[k], delta.n)],
     d2 |-> 4 * delta.d * delta.d * q.d2]

\* sample.middleRows<3>(start): three rows from the 0-based row start, as a
\* vector.
MiddleRows3(v, start) == Vec(v[start + 1], v[start + 2], v[start + 3])

(***************************************************************************)
(* The stochastic integrator (fl::IntegratedDampedWienerProcessModel), a   *)
(* collaborator: condition stores the time step, the velocity and the      *)
(* control; map_standard_normal returns a position-like delta (top) and a  *)
(* velocity (bottom), deterministic in what condition stored, in the       *)
(* damping set by parameters and in the noise.  With time step 0 it        *)
(* returns a zero delta and the conditioned velocity; without damping the  *)
(* velocity is kept over the step, with damping it has decayed.            *)
(***************************************************************************)
ProcessIdle == [delta_time |-> 0, velocity |-> Zero3, control |-> Zero3]

\* Process::condition(delta_time, state, control); state.topRows(3) is zero.
ProcessCondition(delta_time, velocity, control) ==
    [delta_time |-> delta_time, velocity |-> velocity, control |-> control]

\* exp(-damping * delta_time) on the grid: 1 without damping or without
\* time, 0 otherwise.
Decay(damping, dt) == IF damping = 0 \/ dt = 0 THEN 1 ELSE 0

\* Process::map_standard_normal(noise)
ProcessMap(pr, damping, noise) ==
    LET dt == pr.delta_time
        kept == VScale(Decay(damping, dt), pr.velocity)
    IN  [top |-> VAdd(VScale(dt, kept),
                      VAdd(VScale(dt * dt, pr.control), VScale(dt, noise))),
         bottom |-> VAdd(kept,
                         VAdd(VScale(dt, pr.control), VScale(dt, noise)))]

(***************************************************************************)
(* BrownianObjectMotionModel                                               *)
(***************************************************************************)
DIMENSION_PER_OBJECT == 6

Body(p, q, v, w) ==
    [position |-> p, quaternion |-> q, linear_velocity |-> v,
     angular_velocity |-> w]

\* The adjustment of the velocity with the wrong sign.
ToExternalVelocityPlus(v, w, p) == VAdd(v, Cross(w, p))

\* linear_velocity(i) -= angular_velocity(i).cross(state_.position(i))
ToExternalVelocity(v, w, p) == VSub(v, Cross(w, p))

\* The shift to the rotation center applied once more instead of undone.
ToExternalPositionPlus(p, q, c) == VAdd(p, Rotate(q, c))

\* position(i) -= rotation_matrix(i) * rotation_center_[i]
ToExternalPosition(p, q, c) == VSub(p, Rotate(q, c))

\* position(i) += rotation_matrix(i) * rotation_center_[i]
ToInternalPosition(p, q, c) == VAdd(p, Rotate(q, c))

\* linear_velocity(i) += angular_velocity(i).cross(position(i)), with the
\* position already shifted to the rotation center
ToInternalVelocity(v, w, p) == VAdd(v, Cross(w, p))

\* One turn of the loop of condition: the conditionals of body i.
ConditionBody(delta_time, b, center, control, i) ==
    LET p == ToInternalPosition(b.position, b.quaternion, center)
        v == ToInternalVelocity(b.linear_velocity, b.angular_velocity, p)
    IN  [state |-> Body(p, b.quaternion, v, b.angular_velocity),
         quaternion_map |-> QuaternionMatrix(b.quaternion),
         linear_process |->
            ProcessCondition(delta_time, v,
                MiddleRows3(control, (i - 1) * DIMENSION_PER_OBJECT)),
         angular_process |->
            ProcessCondition(delta_time, b.angular_velocity,
                MiddleRows3(control, (i - 1) * DIMENSION_PER_OBJECT + 3))]

\* What condition(delta_time, state, control) stores, for every body.
Conditioned(delta_time, state, centers, control) ==
    [i \in 1..Len(state) |->
        ConditionBody(delta_time, state[i], centers[i], control, i)]

\* The deltas the two integrators of body i return for the sample.
BodyDeltas(c, damping, sample, i) ==
    [linear |-> ProcessMap(c.linear_process, damping,
                    MiddleRows3(sample, (i - 1) * DIMENSION_PER_OBJECT)),
     angular |-> ProcessMap(c.angular_process, damping,
                    MiddleRows3(sample, (i - 1) * DIMENSION_PER_OBJECT + 3))]

\* One turn of the loop of map_standard_normal: the new state of body i.
MapBody(c, center, damping, sample, i) ==
    LET d == BodyDeltas(c, damping, sample, i)
        q == Normalized(UpdatedQuaternion(c.state.quaternion,
                                          c.quaternion_map, d.angular.top))
    IN  Body(ToExternalPosition(VAdd(c.state.position, d.linear.top),
                                q, center),
             q,
             ToExternalVelocity(d.linear.bottom, d.angular.bottom,
                                c.state.position),
             d.angular.bottom)

\* A map that remembers: after a map_standard_normal it returns what that
\* call returned.
MappedStale(cond, centers, dampings, sample) ==
    IF motRet.op = "map" THEN motRet.state
    ELSE [i \in 1..Len(cond) |->
             MapBody(cond[i], centers[i], dampings[i], sample, i)]

\* What map_standard_normal(sample) returns.
Mapped(cond, centers, dampings, sample) ==
    [i \in 1..Len(cond) |->
        MapBody(cond[i], centers[i], dampings[i], sample, i)]

\* The states, controls, samples and time steps given to the model.
MotPositions == {Vec(1, 2, 0)}
MotQuaternions == {Quat(0, 0, 0, 1, 1), Quat(0, 0, 1, 1, 2)}
MotLinearVelocities == {Vec(1, 0, 0)}
MotAngularVelocities == {Zero3, Vec(0, 0, 1)}
MotBodies ==
    {Body(p, q, v, w) : p \in MotPositions, q \in MotQuaternions,
                        v \in MotLinearVelocities, w \in MotAngularVelocities}
\* Controls and samples of 6 rows per body: all zero, or rows that differ
\* from one body to the next.
RECURSIVE RowsOf(_, _, _)
RowsOf(n, odd, even) ==
    IF n = 0 THEN <<>>
    ELSE RowsOf(n - 1, odd, even) \o (IF n % 2 = 1 THEN odd ELSE even)
MotControls(n) ==
    {RowsOf(n, <<0, 0, 0, 0, 0, 0>>, <<0, 0, 0, 0, 0, 0>>),
     RowsOf(n, <<1, 0, 0, 0, 0, 1>>, <<0, 1, 0, 0, 1, 0>>)}
MotSamples(n) ==
    {RowsOf(n, <<0, 0, 0, 0, 0, 0>>, <<0, 0, 0, 0, 0, 0>>),
     RowsOf(n, <<0, 1, 0, 1, 0, 0>>, <<0, 0, 1, 0, 1, 0>>)}
MotTimes == {0, 1}
MotCenters == {Zero3, Vec(1, 0, 0)}
MotDampings == {0, 1}

MotRetIdle == [op |-> "none", state |-> <<>>, sample |-> <<>>]
MotHistIdle == [conditioned |-> FALSE, delta_time |-> 0, state |-> <<>>,
                control |-> <<>>, centers |-> <<>>, chained |-> 0]

\* The states given to the model: every body of MotBodies for one body, a
\* few of them for each of several bodies.
MotBodiesFew ==
    {Body(Vec(1, 2, 0), q, Vec(1, 0, 0), Vec(0, 0, 1)) : q \in MotQuaternions}
MotStates(n) == IF n = 1 THEN [1..n -> MotBodies] ELSE [1..n -> MotBodiesFew]

\* BrownianObjectMotionModel::condition(delta_time, state, control).
MotCondition(delta_time, state, control) ==
    /\ mot' = [mot EXCEPT !.cond = Conditioned(delta_time, state,
                                               mot.rotation_center, control)]
    /\ motRet' = [MotRetIdle EXCEPT !.op = "condition"]
    /\ motHist' = [conditioned |-> TRUE, delta_time |-> delta_time,
                   state |-> state, control |-> control,
                   centers |-> mot.rotation_center,
                   chained |-> 0]

\* BrownianObjectMotionModel::map_standard_normal(sample): a const method.
MotMapStandardNormal(sample) ==
    /\ UNCHANGED mot
    /\ motRet' = [op |-> "map",
                  state |-> Mapped(mot.cond, mot.rotation_center,
                                   mot.damping, sample),
                  sample |-> sample]
    /\ UNCHANGED motHist

\* BrownianObjectMotionModel::predict_state(delta_time, state, noise, input):
\* condition, then map_standard_normal.
MotPredictState(delta_time, state, noise, input) ==
    LET cond == Conditioned(delta_time, state, mot.rotation_center, input)
    IN  /\ mot' = [mot EXCEPT !.cond = cond]
        /\ motRet' = [op |-> "map",
                      state |-> Mapped(cond, mot.rotation_center,
                                       mot.damping, noise),
                      sample |-> noise]
        /\ motHist' = [conditioned |-> TRUE, delta_time |-> delta_time,
                       state |-> state, control |-> input,
                       centers |-> mot.rotation_center,
                       chained |-> motHist.chained + 1]

\* The states a chained prediction step is made on: the state the last
\* map_standard_normal returned, for at most MaxChain chained steps in a
\* row.
MotChainedStates ==
    IF motRet.op = "map" /\ motHist.chained < MaxChain
    THEN {motRet.state} ELSE {}

\* A caller starts from a given state with condition and
\* map_standard_normal ..
MotConditionCall ==
    /\ mot.constructed
    /\ \E dt \in MotTimes, state \in MotStates(mot.body_count),
          control \in MotControls(mot.body_count) :
          MotCondition(dt, state, control)
    /\ UNCHANGED <<depthVars, pixelVars, occVars, callerVars>>

\* Callers follow the two-phase protocol: they map after they conditioned.
MotMapCall ==
    /\ mot.constructed
    /\ motHist.conditioned
    /\ \E sample \in MotSamples(mot.body_count) :
          MotMapStandardNormal(sample)
    /\ UNCHANGED <<depthVars, pixelVars, occVars, callerVars>>

\* .. and goes on with predict_state on the state the last step returned.
MotPredictStateCall ==
    /\ mot.constructed
    /\ \E dt \in MotTimes, state \in MotChainedStates,
          input \in MotControls(mot.body_count),
          noise \in MotSamples(mot.body_count) :
          MotPredictState(dt, state, noise, input)
    /\ UNCHANGED <<depthVars, pixelVars, occVars, callerVars>>

\* BrownianObjectMotionModel::parameters(object_index, rotation_center, ..):
\* callers set the parameters of a body once, before they use the model.
MotParameters ==
    /\ mot.constructed
    /\ ~motHist.conditioned
    /\ \E i \in 1..mot.body_count, c \in MotCenters, d \in MotDampings :
          mot' = [mot EXCEPT !.rotation_center[i] = c, !.damping[i] = d]
    /\ UNCHANGED <<motRet, motHist>>
    /\ UNCHANGED <<depthVars, pixelVars, occVars, callerVars>>

MotCondIdle(n) ==
    [i \in 1..n |->
        [state |-> Body(Zero3, Quat(0, 0, 0, 1, 1), Zero3, Zero3),
         quaternion_map |-> QuaternionMatrix(Quat(0, 0, 0, 1, 1)),
         linear_process |-> ProcessIdle, angular_process |-> ProcessIdle]]

\* BrownianObjectMotionModel::BrownianObjectMotionModel(count_objects): the
\* vectors are resized; rotation_center_ holds whatever the memory held
\* until parameters sets it, the processes are default-constructed.
InitMot ==
    /\ \E n \in {1, 2} : \E centers \in [1..n -> MotCenters] :
          mot = [constructed |-> TRUE, body_count |-> n,
                 rotation_center |-> centers, damping |-> [i \in 1..n |-> 0],
                 cond |-> MotCondIdle(n)]
    /\ motRet = MotRetIdle
    /\ motHist = MotHistIdle

\* No motion model is in use.
IdleMot ==
    /\ mot = [constructed |-> FALSE, body_count |-> 1,
              rotation_center |-> <<Zero3>>, damping |-> <<0>>,
              cond |-> MotCondIdle(1)]
    /\ motRet = MotRetIdle
    /\ motHist = MotHistIdle

(***************************************************************************)
(* Two callers of a process model.  Each caller runs condition and then    *)
(* map_standard_normal (the two calls predict_state makes) on the instance *)
(* it uses; nothing excludes one caller's calls from running between or    *)
(* during the other's.  condition writes in two steps: a BrownianObject-   *)
(* MotionModel first state_ and quaternion_map_, then the two integrators; *)
(* a ContinuousOcclusionProcessModel first mean_, then truncated_gaussian_.*)
(***************************************************************************)
Callers == {1, 2}

\* Every caller on the first instance.
InstanceFirst(k) == 1

\* The instance caller k calls: the one instance if it is shared, its own
\* otherwise.
InstanceOf(k) == IF shared THEN 1 ELSE k

\* The parameters of the instances: one body with no damping and the
\* rotation center in the origin; the first parameters of OccParams.
CallerCenters == <<Zero3>>
CallerDampings == <<0>>
CallerOccPar == [p_occluded_visible |-> 1, p_occluded_occluded |-> 3,
                 sigma |-> 1]

InstIdle ==
    [cond |-> MotCondIdle(1),
     mean |-> [delta_time |-> Num(0), probability |-> Num(0)],
     truncated_gaussian |-> [mean |-> Num(0), sigma |-> Num(ProbOne),
                             min |-> 0, max |-> ProbOne]]

CallerIdle == [pc |-> "start", delta_time |-> 0, state |-> <<>>,
               control |-> <<>>, noise |-> <<>>, out |-> <<>>]

\* The arguments the callers give: (delta_time, state, control) to condition
\* and a noise to map_standard_normal.
CallerArguments ==
    IF kind = "motion"
    THEN {<<dt, state, control>> :
            dt \in MotTimes, state \in MotStates(1),
            control \in MotControls(1)}
    ELSE {<<dt, Num(l), <<>> >> : dt \in {1, 2}, l \in {-1, 1}}
CallerNoises == IF kind = "motion" THEN MotSamples(1) ELSE {-1, 0, 1}

\* What the first step of condition has written to the instance in.
ConditionBegun(in, dt, state, control) ==
    IF kind = "motion"
    THEN LET new == Conditioned(dt, state, CallerCenters, control)
         IN  [in EXCEPT !.cond =
                 [i \in 1..Len(new) |->
                     [new[i] EXCEPT
                         !.linear_process = in.cond[i].linear_process,
                         !.angular_process = in.cond[i].angular_process]]]
    ELSE [in EXCEPT !.mean = OccMean(Num(dt), state)]

\* What condition has written to the instance in when it returns.
ConditionDone(in, dt, state, control) ==
    IF kind = "motion"
    THEN LET new == Conditioned(dt, state, CallerCenters, control)
         IN  [in EXCEPT !.cond =
                 [i \in 1..Len(new) |->
                     [in.cond[i] EXCEPT
                         !.linear_process = new[i].linear_process,
                         !.angular_process = new[i].angular_process]]]
    ELSE [in EXCEPT !.truncated_gaussian =
             OccTruncatedGaussian(CallerOccPar, Num(dt), state)]

\* What map_standard_normal(noise) returns on the instance in.
InstanceMap(in, noise) ==
    IF kind = "motion"
    THEN Mapped(in.cond, CallerCenters, CallerDampings, noise)
    ELSE OccMapValue(in.truncated_gaussian, noise)

\* condition(delta_time, state, control) of caller k, its first step.
CallerConditionBegin(k) ==
    /\ caller[k].pc = "start"
    /\ \E a \in CallerArguments :
          /\ inst' = [inst EXCEPT ![InstanceOf(k)] =
                         ConditionBegun(@, a[1], a[2], a[3])]
          /\ caller' = [caller EXCEPT ![k] =
                           [CallerIdle EXCEPT !.pc = "conditioning",
                                              !.delta_time = a[1],
                                              !.state = a[2],
                                              !.control = a[3]]]
    /\ UNCHANGED <<kind, shared>>
    /\ UNCHANGED <<depthVars, pixelVars, occVars, motVars>>

\* condition of caller k, its second step and return.
CallerConditionEnd(k) ==
    /\ caller[k].pc = "conditioning"
    /\ inst' = [inst EXCEPT ![InstanceOf(k)] =
                   ConditionDone(@, caller[k].delta_time, caller[k].state,
                                 caller[k].control)]
    /\ caller' = [caller EXCEPT ![k].pc = "conditioned"]
    /\ UNCHANGED <<kind, shared>>
    /\ UNCHANGED <<depthVars, pixelVars, occVars, motVars>>

\* map_standard_normal(noise) of caller k.
CallerMap(k) ==
    /\ caller[k].pc = "conditioned"
    /\ \E noise \in CallerNoises :
          caller' = [caller EXCEPT
                        ![k].pc = "done", ![k].noise = noise,
                        ![k].out = InstanceMap(inst[InstanceOf(k)], noise)]
    /\ UNCHANGED <<kind, shared, inst>>
    /\ UNCHANGED <<depthVars, pixelVars, occVars, motVars>>

InitCallers ==
    /\ kind \in {"motion", "occlusion"}
    /\ shared \in BOOLEAN
    /\ inst = [j \in Callers |-> InstIdle]
    /\ caller = [k \in Callers |-> CallerIdle]

\* No callers run.
IdleCallers ==
    /\ kind = "none"
    /\ shared = FALSE
    /\ inst = [j \in Callers |-> InstIdle]
    /\ caller = [k \in Callers |-> [CallerIdle EXCEPT !.pc = "none"]]

IdlePixel == pix = PixIdle

NextDepth == PredictObservationCall \/ ClearCache \/ ChangeScene
InitDepthSpec ==
    InitDepth /\ IdlePixel /\ IdleOcc /\ IdleMot /\ IdleCallers
SpecDepth == InitDepthSpec /\ [][NextDepth]_vars

NextPixel == PixelCall
InitPixelSpec ==
    IdleDepth /\ IdlePixel /\ IdleOcc /\ IdleMot /\ IdleCallers
SpecPixel == InitPixelSpec /\ [][NextPixel]_vars

NextOcc == OccConditionCall \/ OccMapCall \/ OccPredictStateCall
InitOccSpec ==
    IdleDepth /\ IdlePixel /\ InitOcc /\ IdleMot /\ IdleCallers
SpecOcc == InitOccSpec /\ [][NextOcc]_vars

NextMot ==
    MotConditionCall \/ MotMapCall \/ MotPredictStateCall \/ MotParameters
InitMotSpec ==
    IdleDepth /\ IdlePixel /\ IdleOcc /\ InitMot /\ IdleCallers
SpecMot == InitMotSpec /\ [][NextMot]_vars

\* Either process model, used through the two-phase protocol.
NextProcess == NextOcc \/ NextMot
InitProcessSpec ==
    /\ IdleDepth /\ IdlePixel /\ IdleCallers
    /\ (InitOcc /\ IdleMot) \/ (IdleOcc /\ InitMot)
SpecProcess == InitProcessSpec /\ [][NextProcess]_vars

\* A program that constructs one of the two models with any arguments and
\* then uses it.
NextConstructed ==
    \/ NextOcc
    \/ renderer.scene \in Scenes /\ NextDepth
InitConstructedSpec ==
    /\ IdlePixel /\ IdleMot /\ IdleCallers
    /\ (InitOccAny /\ NoDepth) \/ (IdleOcc /\ InitDepthAny)
SpecConstructed == InitConstructedSpec /\ [][NextConstructed]_vars

NextCallers ==
    \E k \in Callers :
        CallerConditionBegin(k) \/ CallerConditionEnd(k) \/ CallerMap(k)
InitCallersSpec ==
    IdleDepth /\ IdlePixel /\ IdleOcc /\ IdleMot /\ InitCallers
SpecCallers == InitCallersSpec /\ [][NextCallers]_vars

(***************************************************************************)
(* Claims about the observation models                                     *)
(***************************************************************************)
\* The observation the depth model returns for a rendering and the state of
\* the call that took it.
ObservationFrom(depth, state, noise) ==
    CameraPredictObservation(
        Convert(depth, state, pose_state_dimension),
        PixelCov(renderer.camera_sigma, renderer.model_sigma), noise)

\* C1: a predict_observation whose pose equals that of an earlier call made
\* since the last clear_cache returns the observation built from the
\* rendering taken at that earlier call, whatever the scene is now; a
\* predict_observation that misses returns the observation of the current
\* scene.
C1_HitReturnsEarlierRendering ==
    /\ ret.hit =>
          /\ ret.kind = "obs"
          /\ TakenOf(ret.pose).ok
          /\ ret.obs = ObservationFrom(TakenOf(ret.pose).depth,
                                       TakenOf(ret.pose).state, ret.noise)
    /\ (ret.kind = "obs" /\ ~ret.hit) =>
          ret.obs = ObservationFrom(
                        Render(ret.scene, renderer.pose, pixel_count),
                        TakenOf(ret.pose).state, ret.noise)

\* C2: since the last clear_cache the renderer was invoked exactly once for
\* every pose that is a key of the cache and never for any other pose; a call
\* invoked it if and only if it missed.
C2_RenderOncePerPose ==
    /\ \A p \in Poses :
          TakenOf(p).n = (IF CacheFind(predictions_cache, p) THEN 1 ELSE 0)
    /\ ret.kind \in {"obs", "error", "abort"} => (ret.rendered <=> ~ret.hit)

\* C2 witness: two poses that differ in one coordinate are both cached, each
\* rendered once, and the last call was a hit.
C2_Witness ==
    /\ CacheFind(predictions_cache, <<0, 0, 0, 0, 0, 0>>)
    /\ CacheFind(predictions_cache, <<0, 0, 0, 0, 0, 1>>)
    /\ TakenOf(<<0, 0, 0, 0, 0, 0>>).n = 1
    /\ TakenOf(<<0, 0, 0, 0, 0, 1>>).n = 1
    /\ ret.hit /\ ~ret.rendered

\* C3: after a predict_observation whose render failed, the cache holds no
\* entry for the pose of that call.
C3_FailedRenderLeavesNoEntry ==
    ret.kind = "error" => ~CacheFind(predictions_cache, ret.pose)

\* C8: the second component of the pixel observation is the square of the
\* first, and with noise 0 the observation is (depth, depth squared).
C8_SecondIsSquareOfFirst ==
    pix.called =>
        /\ pix.y[2] = pix.y[1] * pix.y[1]
        /\ pix.noise = 0 =>
              pix.y = <<pix.state[1], pix.state[1] * pix.state[1]>>

\* C8 witness: a call with noise, then one without and a non-zero feature.
C8_Witness ==
    /\ pix.called /\ pix.noise = 0 /\ pix.state[2] = 2 /\ pix.state[1] = 3
    /\ pix.y = <<3, 9>>

(***************************************************************************)
(* Claims about the occlusion process model                                *)
(***************************************************************************)
\* C9: a condition given a NaN log-odds, or producing a NaN mean, ends the
\* process and leaves the truncated Gaussian as it was; no call returns
\* normally with a NaN log-odds in or out.
C9_NanIsFatal ==
    /\ (occRet.op = "condition"
            /\ (occRet.occlusion.k = "nan" \/ occRet.mean.k = "nan")) =>
          /\ occRet.kind = "exit"
          /\ ~occ.running
          /\ occ.truncated_gaussian = occRet.before[2]
    /\ occRet.kind = "ok" =>
          /\ occRet.occlusion.k # "nan"
          /\ occRet.mean.k # "nan"
          /\ occRet.out.k # "nan"
    /\ (occRet.op = "map" /\ occRet.kind = "exit") =>
          OccMapValue(occRet.before[2], occRet.sample).k = "nan"

\* C9 witness: a condition that produced a NaN mean from a log-odds that is
\* not NaN ended the process after an earlier condition had set the Gaussian.
C9_Witness ==
    /\ occRet.op = "condition" /\ occRet.kind = "exit"
    /\ occRet.occlusion.k = "num" /\ occRet.mean.k = "nan"
    /\ occHist.conditioned
    /\ occ.truncated_gaussian.mean = Num(3)

\* C10: every log-odds map_standard_normal returns is finite.
C10_ReturnedLogOddsFinite ==
    (occRet.op = "map" /\ occRet.kind = "ok") => occRet.out.k = "num"

(***************************************************************************)
(* Claims about the two-phase protocol of the process models               *)
(***************************************************************************)
\* The conditionals a BrownianObjectMotionModel holds after the condition
\* call whose arguments motHist records.
MotLastConditioned ==
    Conditioned(motHist.delta_time, motHist.state, motHist.centers,
                motHist.control)

\* The truncated Gaussian a ContinuousOcclusionProcessModel holds after the
\* condition call whose arguments occHist records.
OccLastConditioned ==
    OccTruncatedGaussian(occ.par, occHist.delta_time, occHist.occlusion)

\* C4: map_standard_normal changes none of the stored conditioned
\* parameters: after any calls they are those of the most recent condition,
\* and the value map_standard_normal returns is the value of its sample under
\* the arguments of the most recent condition and the model parameters, the
\* same for the same sample whatever was called before.
C4_MapReadsOnlyLastCondition ==
    /\ (mot.constructed /\ motHist.conditioned) =>
          /\ mot.cond = MotLastConditioned
          /\ motRet.op = "map" =>
                motRet.state = [i \in 1..mot.body_count |->
                    MapBody(MotLastConditioned[i], mot.rotation_center[i],
                            mot.damping[i], motRet.sample, i)]
    /\ (occ.running /\ occHist.conditioned) =>
          /\ occ.truncated_gaussian = OccLastConditioned
          /\ (occRet.op = "map" /\ occRet.kind = "ok") =>
                /\ OccConditioned(occ) = occRet.before
                /\ occRet.out = OccMapValue(OccLastConditioned, occRet.sample)
                /\ occRet.known => occRet.out = occRet.earlier
          /\ \A x \in DOMAIN occHist.mapped :
                occHist.mapped[x] = OccMapValue(OccLastConditioned, x)

\* C4 witness: a map_standard_normal after a chained step and after an
\* earlier map_standard_normal of a two-body motion model; or a second
\* map_standard_normal of a sample on an occlusion model.
C4_Witness ==
    \/ /\ mot.constructed /\ mot.body_count = 2
       /\ motRet.op = "map" /\ motHist.chained = 1
       /\ motHist.delta_time = 1
       /\ motRet.sample # RowsOf(2, <<0, 0, 0, 0, 0, 0>>, <<0, 0, 0, 0, 0, 0>>)
    \/ /\ occ.running /\ occRet.op = "map" /\ occRet.kind = "ok"
       /\ occRet.known /\ Cardinality(DOMAIN occHist.mapped) >= 2

\* The value caller k gets when map_standard_normal reads what condition
\* stored for the arguments of caller j.
ValueFor(k, j) ==
    InstanceMap(ConditionDone(ConditionBegun(InstIdle, caller[j].delta_time,
                                             caller[j].state,
                                             caller[j].control),
                              caller[j].delta_time, caller[j].state,
                              caller[j].control),
                caller[k].noise)

\* C5: when each caller uses its own instance, the sample every caller gets
\* is computed from the state it conditioned on itself.
C5_OwnInstanceOwnState ==
    ~shared =>
        \A k \in Callers :
            caller[k].pc = "done" => caller[k].out = ValueFor(k, k)

\* C5 witness: the callers share one instance and the sample a caller got is
\* computed from the state the other caller conditioned on, not from its own.
C5_Witness ==
    /\ shared
    /\ \E k \in Callers : \E j \in Callers \ {k} :
          /\ caller[k].pc = "done"
          /\ caller[j].pc \in {"conditioned", "done"}
          /\ caller[k].out = ValueFor(k, j)
          /\ caller[k].out # ValueFor(k, k)

(***************************************************************************)
(* Claims about the rigid-body motion model                                *)
(***************************************************************************)
\* C6: every body of every state map_standard_normal or predict_state
\* returns has an orientation quaternion of norm 1.
C6_QuaternionNormOne ==
    (mot.constructed /\ motRet.op = "map") =>
        \A i \in 1..mot.body_count :
            LET q == motRet.state[i].quaternion
            IN  q.d2 > 0 /\ SumSq(q.v) = q.d2

\* C6 witness: a chained predict_state with noise that turned the
\* orientation of a body away from the one it was given.
C6_Witness ==
    /\ mot.constructed /\ motRet.op = "map" /\ motHist.chained = MaxChain
    /\ \E i \in 1..mot.body_count :
          /\ motRet.state[i].quaternion # motHist.state[i].quaternion
          /\ motRet.state[i].quaternion.d2 > 2
          /\ MiddleRows3(motRet.sample, (i - 1) * DIMENSION_PER_OBJECT + 3)
                # Zero3

\* Whether all rows of a control or of a noise sample are zero.
AllZero(v) == \A r \in 1..Len(v) : v[r] = 0

\* Whether the step recorded is one with zero pivot offset, zero noise and
\* zero control input.
ZeroPivotStep ==
    /\ mot.constructed /\ motRet.op = "map"
    /\ \A i \in 1..mot.body_count :
          motHist.centers[i] = Zero3 /\ mot.rotation_center[i] = Zero3
    /\ AllZero(motHist.control)
    /\ AllZero(motRet.sample)

\* C7: with zero pivot offset, zero noise and zero control the returned
\* position is the input position plus the linear position delta and the
\* returned linear velocity is the linear velocity of the integrator minus
\* (new angular velocity x input position); when the integrators return a
\* zero position delta and the conditioned velocities, the step returns the
\* input position and velocities.
C7_ZeroPivotRoundTrip ==
    ZeroPivotStep =>
        \A i \in 1..mot.body_count :
            LET in == motHist.state[i]
                out == motRet.state[i]
                d == BodyDeltas(mot.cond[i], mot.damping[i], motRet.sample, i)
            IN  /\ out.position = VAdd(in.position, d.linear.top)
                /\ out.linear_velocity =
                      VSub(d.linear.bottom,
                           Cross(out.angular_velocity, in.position))
                /\ (/\ d.linear.top = Zero3
                    /\ d.linear.bottom = mot.cond[i].state.linear_velocity
                    /\ d.angular.bottom = mot.cond[i].state.angular_velocity)
                      => /\ out.position = in.position
                         /\ out.linear_velocity = in.linear_velocity
                         /\ out.angular_velocity = in.angular_velocity

\* C7 witness: such a step of time 0 on a body that turns about an axis off
\* its position, so that condition did change its linear velocity.
C7_Witness ==
    /\ ZeroPivotStep
    /\ motHist.delta_time = 0
    /\ \E i \in 1..mot.body_count :
          /\ Cross(motHist.state[i].angular_velocity,
                   motHist.state[i].position) # Zero3
          /\ mot.cond[i].state.linear_velocity
                # motHist.state[i].linear_velocity
          /\ motRet.state[i].linear_velocity
                = motHist.state[i].linear_velocity

(***************************************************************************)
(* Claims about construction                                               *)
(***************************************************************************)
\* Whether the arguments the occlusion model was constructed with are
\* invalid: a sigma that is not positive or a probability outside [0, 1].
OccArgumentsInvalid ==
    \/ occ.par.sigma <= 0
    \/ occ.par.p_occluded_visible \notin 0..ProbOne
    \/ occ.par.p_occluded_occluded \notin 0..ProbOne

\* C11: a model constructed with invalid parameters is never used: an
\* occlusion model with a sigma that is not positive or a probability
\* outside [0, 1] answers no condition, map_standard_normal or predict_state,
\* and a depth model whose pixel grid has no pixel answers no
\* predict_observation.
C11_InvalidParametersFailAtConstruction ==
    /\ OccArgumentsInvalid => occRet.op = "none"
    /\ pixel_count <= 0 => ret.kind \in {"none", "abort"}

(***************************************************************************)
(* Claims about the rotation center of the motion model                    *)
(***************************************************************************)
\* Whether the integrators of a body with the conditionals c returned the
\* deltas d with zero position deltas and the conditioned velocities.
DeltasKeepState(c, d) ==
    /\ d.linear.top = Zero3
    /\ d.angular.top = Zero3
    /\ d.linear.bottom = c.state.linear_velocity
    /\ d.angular.bottom = c.state.angular_velocity

\* C12: for any rotation center c condition stores the position
\* p + R(q)*c and the linear velocity v + w x (p + R(q)*c), and
\* map_standard_normal returns the position (p + R(q)*c + linear position
\* delta) - R(q_new)*c and the linear velocity (linear velocity of the
\* integrator) - w_new x (p + R(q)*c); when the integrators return zero
\* position deltas and the conditioned velocities the returned body is the
\* input body.
C12_PivotShiftUndone ==
    (mot.constructed /\ motRet.op = "map") =>
        \A i \in 1..mot.body_count :
            LET in == motHist.state[i]
                out == motRet.state[i]
                c == mot.rotation_center[i]
                d == BodyDeltas(mot.cond[i], mot.damping[i], motRet.sample, i)
                pin == VAdd(in.position, Rotate(in.quaternion, c))
            IN  /\ motHist.centers[i] = c
                /\ mot.cond[i].state.position = pin
                /\ mot.cond[i].state.linear_velocity =
                      VAdd(in.linear_velocity,
                           Cross(in.angular_velocity, pin))
                /\ out.position =
                      VSub(VAdd(pin, d.linear.top),
                           Rotate(out.quaternion, c))
                /\ out.linear_velocity =
                      VSub(d.linear.bottom,
                           Cross(out.angular_velocity, pin))
                /\ DeltasKeepState(mot.cond[i], d) => out = in

\* C12 witness: a step of time 0 on a turned body with a rotation center
\* off its origin, so that condition moved its position and changed its
\* linear velocity, and the step returned the body as it was given.
C12_Witness ==
    /\ mot.constructed /\ motRet.op = "map"
    /\ \E i \in 1..mot.body_count :
          LET in == motHist.state[i]
              c == mot.rotation_center[i]
          IN  /\ c # Zero3
              /\ Rotate(in.quaternion, c) # c
              /\ mot.cond[i].state.position # in.position
              /\ mot.cond[i].state.linear_velocity # in.linear_velocity
              /\ DeltasKeepState(mot.cond[i],
                     BodyDeltas(mot.cond[i], mot.damping[i],
                                motRet.sample, i))
              /\ motRet.state[i] = in

(***************************************************************************)
(* Claims about the latent vector of a cache hit                           *)
(***************************************************************************)
\* C13: every entry of the cache is the latent vector the miss that created
\* it stored, and every observation returned since the last clear_cache is
\* the observation of the entry of its pose and of its noise alone, so that
\* calls with equal first six state components and equal noise return
\* equal observations whatever their other components are.
C13_HitUsesStoredLatent ==
    /\ \A p \in DOMAIN predictions_cache :
          TakenOf(p).ok =>
              predictions_cache[p] =
                  Convert(TakenOf(p).depth, TakenOf(p).state,
                          pose_state_dimension)
    /\ ret.hit => ret.kind = "obs"
    /\ ret.kind = "obs" =>
          /\ CacheFind(predictions_cache, ret.pose)
          /\ Len(predictions_cache[ret.pose]) = 2 * pixel_count
          /\ ret.obs = CameraPredictObservation(
                           predictions_cache[ret.pose],
                           PixelCov(renderer.camera_sigma,
                                    renderer.model_sigma),
                           ret.noise)

===========================================================================
